---- MODULE Spec2Model ----
(***************************************************************************)
(* LoRa ingestion bridge of IndustrialMonitor: the gateway sketch          *)
(* (src/unnamed/part_001) that polls the SX127x radio, decodes the compact *)
(* JSON payload, builds the canonical JSON payload and publishes it over   *)
(* MQTT from one cooperative loop().                                        *)
(*                                                                         *)
(* Bytes are modelled as sequences of JSON tokens; numbers are fixed point *)
(* (integer part and thousandths), so that millis() / 1000 of a 32-bit     *)
(* counter stays inside TLC's integers.                                    *)
(***************************************************************************)
EXTENDS Integers, Sequences, FiniteSets, TLC

\* ----------------------------------------------------------------- bounds
\* Number of radio packets put on the air in one behaviour.
MaxPackets == 3
\* Number of clock advances in one behaviour.
MaxTicks == 2
\* deep-sleep wake-ups of the node in one run
MaxBoots == 3

\* ----------------------------------------------------------- JSON tokens
\* One token of a textual JSON document: punctuation, a quoted string, a
\* number i + f/1000 (f carries the sign of the number), null, or a byte
\* that starts no JSON token.
Tok(k, s, i, f) == [k |-> k, s |-> s, i |-> i, f |-> f]
P(c) == Tok(c, "", 0, 0)
S(s) == Tok("str", s, 0, 0)
N(i, f) == Tok("num", "", i, f)
Null == Tok("null", "", 0, 0)
Junk == Tok("junk", "", 0, 0)

IsValue(t) == t.k \in {"str", "num", "null"}

\* A JSON object with the given members, as the tokens of its text.
RECURSIVE MemberToks(_, _)
MemberToks(members, j) ==
    IF j > Len(members) THEN <<>>
    ELSE (IF j = 1 THEN <<>> ELSE <<P(",")>>)
         \o <<S(members[j].key), P(":"), members[j].val>>
         \o MemberToks(members, j + 1)

\* serializeJson(doc, buffer) of an object document: members in insertion
\* order.
serializeJson(members) == <<P("{")>> \o MemberToks(members, 1) \o <<P("}")>>

\* The number of bytes of the text of a token.  A number is printed with
\* its sign, its integer digits and its decimals without trailing zeros.
RECURSIVE Digits(_)
Digits(n) == IF n < 10 THEN 1 ELSE 1 + Digits(n \div 10)
Abs(n) == IF n < 0 THEN -n ELSE n
FracLen(f) == IF f = 0 THEN 0 ELSE IF f % 100 = 0 THEN 2 ELSE IF f % 10 = 0 THEN 3 ELSE 4
TokLen(t) ==
    CASE t.k = "str" -> Len(t.s) + 2
      [] t.k = "num" -> (IF t.i < 0 \/ t.f < 0 THEN 1 ELSE 0)
                          + Digits(Abs(t.i)) + FracLen(Abs(t.f))
      [] t.k = "null" -> 4
      [] t.k = "part" -> t.i
      [] OTHER -> 1
\* The number of bytes of a text: one pair <<h, k>> for byte k of token h.
TextLen(b) ==
    Cardinality(UNION {{<<h, k>> : k \in 1..TokLen(b[h])} : h \in 1..Len(b)})
\* The first n bytes of a token that has more than n bytes.
Part(n) == Tok("part", "", n, 0)
\* The first cap bytes of a text: the tokens that fit, and the part of the
\* next one that does.  (A set of one element names a value.)
RECURSIVE CutFrom(_, _, _)
CutFrom(b, j, room) ==
    IF j > Len(b) \/ room = 0 THEN <<>>
    ELSE CHOOSE cut \in
             {IF len <= room
              THEN <<b[j]>> \o CutFrom(b, j + 1, room - len)
              ELSE <<Part(room)>> : len \in {TokLen(b[j])}} : TRUE
CutAt(text, cap) == CHOOSE cut \in {CutFrom(b, 1, cap) : b \in {text}} : TRUE
\* serializeJson(doc, buffer) into a char array of the given size: the
\* writer stops at the end of the array.  A text that fits with its
\* terminator is written whole.  Of a longer text the library writes
\* size - 1 bytes and a terminator, or (later 6.x releases) size bytes and
\* no terminator.
written(text, size) ==
    IF TextLen(text) < size THEN {text} ELSE {CutAt(text, size - 1), CutAt(text, size)}
serializeJsonTo(members, size) ==
    UNION {written(text, size) : text \in {serializeJson(members)}}
\* Bytes that are not part of the payload.
RECURSIVE Garbage(_)
Garbage(n) == IF n = 0 THEN <<>> ELSE <<Junk>> \o Garbage(n - 1)

\* deserializeJson(rxDoc, payload): the parse of one JSON value.  The result
\* carries the DeserializationError code and, for an object, its members.
\* Parsing ends with the brace that closes the object; the payloads
\* enumerated below carry nothing after it.
Parsed(code, members) == [error |-> code, members |-> members]

\* ParseMembers with a document that ends early taken as complete.
RECURSIVE ParseMembersLenient(_, _, _)
ParseMembersLenient(b, j, acc) ==
    IF j + 3 > Len(b) THEN
        IF j + 2 <= Len(b) /\ ~(b[j].k = "str" /\ b[j + 1].k = ":" /\ IsValue(b[j + 2]))
        THEN Parsed("InvalidInput", <<>>)
        ELSE Parsed("Ok", acc)
    ELSE IF ~(b[j].k = "str" /\ b[j + 1].k = ":" /\ IsValue(b[j + 2])) THEN
        Parsed("InvalidInput", <<>>)
    ELSE LET acc2 == Append(acc, [key |-> b[j].s, val |-> b[j + 2]]) IN
        IF b[j + 3].k = "}" THEN Parsed("Ok", acc2)
        ELSE IF b[j + 3].k = "," THEN ParseMembersLenient(b, j + 4, acc2)
        ELSE Parsed("InvalidInput", <<>>)

\* The members of an object, from the token after the opening brace.
RECURSIVE ParseMembers(_, _, _)
ParseMembers(b, j, acc) ==
    IF j + 3 > Len(b) THEN
        IF j + 2 <= Len(b) /\ ~(b[j].k = "str" /\ b[j + 1].k = ":" /\ IsValue(b[j + 2]))
        THEN Parsed("InvalidInput", <<>>)
        ELSE Parsed("IncompleteInput", <<>>)
    ELSE IF ~(b[j].k = "str" /\ b[j + 1].k = ":" /\ IsValue(b[j + 2])) THEN
        Parsed("InvalidInput", <<>>)
    ELSE LET acc2 == Append(acc, [key |-> b[j].s, val |-> b[j + 2]]) IN
        IF b[j + 3].k = "}" THEN Parsed("Ok", acc2)
        ELSE IF b[j + 3].k = "," THEN ParseMembers(b, j + 4, acc2)
        ELSE Parsed("InvalidInput", <<>>)

deserializeJson(b) ==
    IF Len(b) = 0 THEN Parsed("EmptyInput", <<>>)
    ELSE IF b[1].k = "{" THEN
        IF Len(b) = 1 THEN Parsed("IncompleteInput", <<>>)
        ELSE IF b[2].k = "}" THEN Parsed("Ok", <<>>)
        ELSE ParseMembers(b, 2, <<>>)
    ELSE IF IsValue(b[1]) THEN
        IF Len(b) = 1 THEN Parsed("Ok", <<>>) ELSE Parsed("InvalidInput", <<>>)
    ELSE Parsed("InvalidInput", <<>>)

\* rxDoc[key]: the member's value, a null variant when the key is absent.
Member(members, key) ==
    IF \E j \in 1..Len(members) : members[j].key = key
    THEN members[CHOOSE j \in 1..Len(members) :
                     members[j].key = key
                     /\ \A h \in 1..(j - 1) : members[h].key # key].val
    ELSE Null

\* JsonVariant to const char*: the string, or a null pointer for anything
\* that is not a string.
AsCharPtr(v) == IF v.k = "str" THEN [null |-> FALSE, s |-> v.s]
                ELSE [null |-> TRUE, s |-> ""]
\* JsonVariant to float: the number, 0 for anything that is not a number.
AsFloat(v) == IF v.k = "num" THEN [i |-> v.i, f |-> v.f] ELSE [i |-> 0, f |-> 0]
\* JsonVariant to int: the number truncated toward zero, 0 otherwise.
AsInt(v) == IF v.k = "num" THEN v.i ELSE 0

\* ------------------------------------------------------------ configuration
\* const char* MQTT_TOPIC_PREFIX
MQTT_TOPIC_PREFIX == "factory/"
\* char topic[64]
TopicSize == 64

\* The node: const char* MACHINE_ID, #define SLEEP_SECONDS, char payload[128]
MACHINE_ID == "lathe_01"
SLEEP_SECONDS == 30
PayloadSize == 128
\* The largest packet the radio sends: LoRa.write cuts at MAX_PKT_LENGTH.
MAX_PKT_LENGTH == 255

\* ------------------------------------------------------------------ inputs
\* {"id":"lathe_01","t":67.3,"v":0.012,"r":3200}
GoodBytes ==
    serializeJson(<<[key |-> "id", val |-> S("lathe_01")], [key |-> "t", val |-> N(67, 300)],
                    [key |-> "v", val |-> N(0, 12)], [key |-> "r", val |-> N(3200, 0)]>>)
\* {"id":"mill_02","t":-5.5,"v":1.25,"r":0}
GoodBytes2 ==
    serializeJson(<<[key |-> "id", val |-> S("mill_02")], [key |-> "t", val |-> N(-5, -500)],
                    [key |-> "v", val |-> N(1, 250)], [key |-> "r", val |-> N(0, 0)]>>)
\* {"id":"","t":67.3,"v":0.012,"r":3200}
EmptyIdBytes ==
    serializeJson(<<[key |-> "id", val |-> S("")], [key |-> "t", val |-> N(67, 300)],
                    [key |-> "v", val |-> N(0, 12)], [key |-> "r", val |-> N(3200, 0)]>>)
\* {"t":67.3,"v":0.012,"r":3200}
NoIdBytes ==
    serializeJson(<<[key |-> "t", val |-> N(67, 300)], [key |-> "v", val |-> N(0, 12)],
                    [key |-> "r", val |-> N(3200, 0)]>>)
\* {"id":"lathe_01","t":67.3}
IncompleteBytes ==
    serializeJson(<<[key |-> "id", val |-> S("lathe_01")], [key |-> "t", val |-> N(67, 300)]>>)
\* {"id":"lathe_01","t":    (a packet cut short)
TruncatedBytes == SubSeq(GoodBytes, 1, 7)
\* bytes that are no JSON at all
GarbageBytes == <<Junk, Junk>>
\* a packet of length zero
EmptyBytes == <<>>
\* An identity of 56 characters: the first 55 and the last one.
LongIdHead == "press_03_hall_b_line_07_station_12_spindle_unit_a_00000"
LongIdTail == "7"
LongId == LongIdHead \o LongIdTail
\* {"id":"<56 characters>","t":67.3,"v":0.012,"r":3200}
LongIdBytes ==
    serializeJson(<<[key |-> "id", val |-> S(LongId)], [key |-> "t", val |-> N(67, 300)],
                    [key |-> "v", val |-> N(0, 12)], [key |-> "r", val |-> N(3200, 0)]>>)

\* The payloads a sender may put on the air.
AirPayloads == {GoodBytes, GoodBytes2, EmptyIdBytes, NoIdBytes, IncompleteBytes,
                TruncatedBytes, GarbageBytes, EmptyBytes, LongIdBytes}
\* The link quality the radio measures for a packet: RSSI in dBm, SNR in dB
\* (a multiple of 0.25, as i + f/1000).
AirLinks == {[rssi |-> -45, snr |-> [i |-> 9, f |-> 500]],
             [rssi |-> -110, snr |-> [i |-> -7, f |-> -250]]}

\* Identities a node can be built with ("Change for each node"): the one in
\* the sketch, and identities of 90, 91 and 94 characters.  With the
\* sampled values below the text of a reading is 37 bytes plus the identity.
MachineId90 == "mill_07_plant_north_hall_c_line_12_cell_04_station_09_axis_x_spindle_main_bearing_drive_90"
MachineId91 == "mill_07_plant_north_hall_c_line_12_cell_04_station_09_axis_x_spindle_main_bearing_drive__91"
MachineId94 == "mill_07_plant_north_hall_c_line_12_cell_04_station_09_axis_x_spindle_main_bearing_drive_end_94"
MachineIds == {MACHINE_ID, MachineId90, MachineId91, MachineId94}
\* How many bytes beyond an unterminated payload array are read before a
\* zero byte is met.
OverReads == {0, 3}

\* The quantities at the node's sensors, in units of 0.0001: temperature
\* in degrees Celsius, vibration in g; rpm is an integer.
Temperatures == {673400, 622600, -52500}
Vibrations == {123, 96, -14}
Rpms == {3200, 3150, -20}

\* ------------------------------------------------------------------- state
VARIABLES
    pc,          \* position of the gateway sketch
    mqttState,   \* upstream session: "Disconnected", "Connecting", "Connected"
    loraMode,    \* radio operating mode: "Standby" or "RxSingle"
    irqRxDone,   \* radio IRQ flag RxDone
    fifo,        \* payload bytes of the packet held by the radio
    pktRssi,     \* radio register: RSSI of the last packet
    pktSnr,      \* radio register: SNR of the last packet
    payload,     \* handleLoRaPacket: String payload
    rssi,        \* handleLoRaPacket: int rssi
    snr,         \* handleLoRaPacket: float snr
    fields,      \* handleLoRaPacket: machineId, temperature, vibration, rpm
    topic,       \* handleLoRaPacket: char topic[64]
    mqttPayload, \* handleLoRaPacket: char mqttPayload[512]
    clock,       \* millis(): [sec, ms] with sec * 1000 + ms the 32-bit counter
    ticks,       \* number of clock advances so far
    arrived,     \* history: for every packet put on the air, whether the
                 \*   upstream was Connected at that moment
    nPub,        \* history: number of calls of mqttClient.publish
    nDiscard,    \* history: number of packets discarded by handleLoRaPacket
    doneSeq,     \* history: number of the last packet whose handling returned
    fifoPkt,     \* history: the air packet held by the radio
    curPkt,      \* history: the air packet being handled
    handled,     \* history: the handling that has just returned, if any
    lastStamp,   \* history: timestamp of the last published payload, -1 if none
    \* the sensor node (lora-node.ino)
    nodePc,      \* position of the node sketch
    bootCount,   \* RTC_DATA_ATTR int bootCount
    nodeRadio,   \* the node's radio chip: "Uninit", "Begun" or "Configured"
    sample,      \* readAndTransmit: temperature, vibration, rpm
    nodePayload, \* readAndTransmit: char payload[128]
    result,      \* readAndTransmit: int result; -1 while it holds no value
    slept,       \* seconds spent in the current deep sleep
    phases,      \* history: the phases this boot has gone through
    txThisBoot,  \* history: transmit attempts made in this boot
    sinceTx,     \* history: seconds slept since the last transmit attempt;
                 \*   -1 before the first one
    txGap,       \* history: sinceTx at the last transmit attempt
    lastTx,      \* history: result of the last transmit attempt; -1 if none
    onAir,       \* history: the packet handed to the radio in this boot
    boots,       \* history: boots since power-on or the last software reset
    machineId,   \* const char* MACHINE_ID of this build
    measured     \* history: the quantities at the sensors when they were read

gatewayVars == <<pc, mqttState, loraMode, irqRxDone, fifo, pktRssi, pktSnr,
          payload, rssi, snr, fields, topic, mqttPayload, clock, ticks,
          arrived, nPub, nDiscard, doneSeq, fifoPkt, curPkt, handled, lastStamp>>
nodeVars == <<nodePc, bootCount, nodeRadio, sample, nodePayload, result, slept,
              phases, txThisBoot, sinceTx, txGap, lastTx, onAir,
              boots,
              machineId,
              measured>>
vars == <<gatewayVars, nodeVars>>

radioVars == <<loraMode, irqRxDone, fifo, pktRssi, pktSnr, fifoPkt>>
localVars == <<payload, rssi, snr, fields, topic, mqttPayload, curPkt>>
histVars == <<arrived, nPub, nDiscard, doneSeq, handled, lastStamp>>
clockVars == <<clock, ticks>>

NoFields == [machineId |-> [null |-> TRUE, s |-> ""],
             temperature |-> [i |-> 0, f |-> 0],
             vibration |-> [i |-> 0, f |-> 0],
             rpm |-> 0]
NoSnr == [i |-> 0, f |-> 0]
\* An air packet: its number in arrived, what was sent and what the radio
\* measured, and the upstream state when it arrived.
\* A received packet: link is the upstream state when it arrived, steady
\* says that the upstream has been Connected ever since.
AirPkt(k, b, q, l) ==
    [seq |-> k, bytes |-> b, rssi |-> q.rssi, snr |-> q.snr, link |-> l,
     steady |-> (l = "Connected")]
NoPkt ==
    [seq |-> 0, bytes |-> <<>>, rssi |-> 0, snr |-> NoSnr, link |-> "Disconnected",
     steady |-> FALSE]
\* What one run of handleLoRaPacket did: the packet, how it ended
\* ("parse_error", "missing_id" or "published"), and the publish call it
\* made: topic, payload, upstream state and millis() / 1000 at the call,
\* and the result of the call.
Handling(p, how, calls, t, m, l, sent, sec) ==
    [pkt |-> p, outcome |-> how, calls |-> calls, topic |-> t, payload |-> m,
     link |-> l, ok |-> sent, sec |-> sec]
Discarded(p, how) == Handling(p, how, 0, "", <<>>, "Disconnected", FALSE, 0)
NoHandling == Discarded(NoPkt, "none")

\* The locals of handleLoRaPacket once it has returned.
LocalsDead ==
    /\ payload' = <<>>
    /\ rssi' = 0
    /\ snr' = NoSnr
    /\ fields' = NoFields
    /\ topic' = ""
    /\ mqttPayload' = <<>>
    /\ curPkt' = NoPkt

\* The locals of the node's readAndTransmit before they are assigned.
NoSample == [temperature |-> 0, vibration |-> 0, rpm |-> 0]

\* The node at power-on: setup() is about to run, the .rtc.data section
\* has been loaded.
NodeInit ==
    /\ nodePc = "Booting"
    /\ bootCount = 0
    /\ nodeRadio = "Uninit"
    /\ sample = NoSample
    /\ nodePayload = <<>>
    /\ result = -1
    /\ slept = 0
    /\ phases = <<"Booting">>
    /\ txThisBoot = 0
    /\ sinceTx = -1
    /\ txGap = -1
    /\ lastTx = -1
    /\ onAir = <<>>
    /\ boots = 1
    /\ machineId \in MachineIds
    /\ measured = NoSample

\* The gateway at position p with millis() at c, with no packet received
\* so far and the upstream session down.
GatewayAt(p, c) ==
    /\ pc = p
    /\ mqttState = "Disconnected"
    /\ loraMode = "Standby"
    /\ irqRxDone = FALSE
    /\ fifo = <<>>
    /\ pktRssi = 0
    /\ pktSnr = NoSnr
    /\ payload = <<>>
    /\ rssi = 0
    /\ snr = NoSnr
    /\ fields = NoFields
    /\ topic = ""
    /\ mqttPayload = <<>>
    /\ clock = c
    /\ ticks = 0
    /\ arrived = <<>>
    /\ nPub = 0
    /\ nDiscard = 0
    /\ doneSeq = 0
    /\ fifoPkt = NoPkt
    /\ curPkt = NoPkt
    /\ handled = NoHandling
    /\ lastStamp = -1

\* State when setup() is entered: nothing connected, radio not started.
GatewayInit == GatewayAt("setupWiFi", [sec |-> 0, ms |-> 0])

\* The gateway, next to a node built as the sketch stands.
Init == GatewayInit /\ NodeInit /\ machineId = MACHINE_ID
\* A node of any of the builds.
NodeBuildInit == GatewayInit /\ NodeInit

\* -------------------------------------------------------- library calls
\* mqttClient.connected()
connected == mqttState = "Connected"

\* The integer part of LoRa.packetSnr() taken for the RSSI.
packetSnrAsRssi == pktSnr.i
\* LoRa.packetRssi(), LoRa.packetSnr(): the registers of the last packet.
packetRssi == pktRssi
packetSnr == pktSnr

\* A count of the publications so far in place of the clock.
publishCount == nPub
\* millis() / 1000
millisSeconds == clock.sec

\* The first n characters of s, for the strings that are cut in this model:
\* the head is one of Heads and what is cut off one of Tails.
Heads == {MQTT_TOPIC_PREFIX \o LongIdHead}
Tails == {LongIdTail}
Truncate(s, n) ==
    IF Len(s) <= n THEN s
    ELSE CHOOSE h \in Heads : Len(h) = n /\ \E t \in Tails : h \o t = s

\* snprintf(topic, sizeof(topic), "%s%s", prefix, id): at most size - 1
\* characters are stored.
snprintf(size, prefix, id) == Truncate(prefix \o id, size - 1)

\* The timestamp of a canonical text: the value of its second member.
Timestamp(m) == m[8].i

\* The canonical document built by handleLoRaPacket, members in the order
\* of the assignments.
txDoc(f, ts, r, q) ==
    <<[key |-> "machine_id", val |-> S(f.machineId.s)],
      [key |-> "timestamp", val |-> N(ts, 0)],
      [key |-> "temperature", val |-> N(f.temperature.i, f.temperature.f)],
      [key |-> "vibration", val |-> N(f.vibration.i, f.vibration.f)],
      [key |-> "rpm", val |-> N(f.rpm, 0)],
      [key |-> "rssi", val |-> N(r, 0)],
      [key |-> "snr", val |-> N(q.i, q.f)]>>

\* Extract with the temperature held in an int.
ExtractIntTemperature(members) ==
    [machineId |-> AsCharPtr(Member(members, "id")),
     temperature |-> [i |-> AsInt(Member(members, "t")), f |-> 0],
     vibration |-> AsFloat(Member(members, "v")),
     rpm |-> AsInt(Member(members, "r"))]

\* The fields handleLoRaPacket extracts from the parsed compact document.
Extract(members) ==
    [machineId |-> AsCharPtr(Member(members, "id")),
     temperature |-> AsFloat(Member(members, "t")),
     vibration |-> AsFloat(Member(members, "v")),
     rpm |-> AsInt(Member(members, "r"))]

\* if (!machineId): the only validation of the extracted fields.
Rejected(f) == f.machineId.null

\* An error path that never returns.
DiscardSpins == "halted"
\* return; on an error path of handleLoRaPacket: back in loop() at delay(10).
DiscardReturn == "delay"

\* handleLoRaPacket returns without publishing.
Discard(how) ==
    /\ handled' = Discarded(curPkt, how)
    /\ nDiscard' = nDiscard + 1
    /\ doneSeq' = curPkt.seq
    /\ UNCHANGED <<arrived, nPub, lastStamp>>

\* ------------------------------------------------------------------ setup
\* setup(): setupWiFi() returns once the station is associated.
SetupWiFi ==
    /\ pc = "setupWiFi"
    /\ pc' = "setupLoRa"
    /\ UNCHANGED <<mqttState, radioVars, localVars, clockVars, histVars>>
    /\ UNCHANGED nodeVars

\* setup(): setupLoRa().  LoRa.begin leaves the radio in standby; when it
\* fails the sketch spins in while (1).
SetupLoRa ==
    /\ pc = "setupLoRa"
    /\ \E began \in BOOLEAN : pc' = IF began THEN "check" ELSE "halted"
    /\ UNCHANGED <<mqttState, radioVars, localVars, clockVars, histVars>>
    /\ UNCHANGED nodeVars

\* ------------------------------------------------------------------- loop
\* loop() without the connection check.
LoopUnchecked ==
    /\ pc = "check"
    /\ pc' = "mqttLoop"
    /\ UNCHANGED <<mqttState, radioVars, localVars, clockVars, histVars>>
    /\ UNCHANGED nodeVars

\* loop(): if (!mqttClient.connected()) reconnectMQTT();
LoopCheck ==
    /\ pc = "check"
    /\ pc' = IF connected THEN "mqttLoop" ELSE "reconnect"
    /\ UNCHANGED <<mqttState, radioVars, localVars, clockVars, histVars>>
    /\ UNCHANGED nodeVars

\* reconnectMQTT() taking the session for connected without a call of
\* mqttClient.connect.
ReconnectAssumed ==
    /\ pc = "reconnect"
    /\ pc' = "mqttLoop"
    /\ mqttState' = "Connected"
    /\ UNCHANGED <<radioVars, localVars, clockVars, histVars>>
    /\ UNCHANGED nodeVars

\* reconnectMQTT(): the while test, and the start of mqttClient.connect.
ReconnectTry ==
    /\ pc = "reconnect"
    /\ IF connected
       THEN pc' = "mqttLoop" /\ UNCHANGED mqttState
       ELSE pc' = "connect" /\ mqttState' = "Connecting"
    /\ UNCHANGED <<radioVars, localVars, clockVars, histVars>>
    /\ UNCHANGED nodeVars

\* reconnectMQTT(): mqttClient.connect returns; the broker accepted or not.
ConnectResult ==
    /\ pc = "connect"
    /\ \E accepted \in BOOLEAN :
          IF accepted
          THEN mqttState' = "Connected" /\ pc' = "reconnect"
          ELSE mqttState' = "Disconnected" /\ pc' = "backoff"
    /\ UNCHANGED <<radioVars, localVars, clockVars, histVars>>
    /\ UNCHANGED nodeVars

\* reconnectMQTT(): delay(5000) is over.
Backoff ==
    /\ pc = "backoff"
    /\ pc' = "reconnect"
    /\ UNCHANGED <<mqttState, radioVars, localVars, clockVars, histVars>>
    /\ UNCHANGED nodeVars

\* loop(): mqttClient.loop()
MqttLoop ==
    /\ pc = "mqttLoop"
    /\ pc' = "poll"
    /\ UNCHANGED <<mqttState, radioVars, localVars, clockVars, histVars>>
    /\ UNCHANGED nodeVars

\* loop(): LoRa.parsePacket().  With RxDone set the IRQ is cleared, the
\* radio stays in standby and the packet length is returned; otherwise the
\* FIFO pointer is reset and the radio is put into single receive mode
\* unless it is already there.
ParsePacket ==
    /\ pc = "poll"
    /\ IF irqRxDone
       THEN /\ irqRxDone' = FALSE
            /\ loraMode' = "Standby"
            /\ IF Len(fifo) > 0
               THEN /\ pc' = "read"
                    /\ curPkt' = fifoPkt
               ELSE /\ pc' = "delay"
                    /\ curPkt' = NoPkt
            /\ fifoPkt' = NoPkt
            /\ UNCHANGED <<fifo, pktRssi, pktSnr>>
       ELSE /\ loraMode' = "RxSingle"
            /\ fifo' = <<>>
            /\ pc' = "delay"
            /\ UNCHANGED <<irqRxDone, pktRssi, pktSnr, fifoPkt, curPkt>>
    /\ UNCHANGED <<mqttState, payload, rssi, snr, fields, topic, mqttPayload,
                   clockVars, histVars>>
    /\ UNCHANGED nodeVars

\* handleLoRaPacket: while (LoRa.available()) payload += (char)LoRa.read();
ReadPayload ==
    /\ pc = "read"
    /\ payload' = fifo
    /\ pc' = "metrics"
    /\ UNCHANGED <<mqttState, radioVars, rssi, snr, fields, topic, mqttPayload,
                   curPkt, clockVars, histVars>>
    /\ UNCHANGED nodeVars

\* handleLoRaPacket: rssi = LoRa.packetRssi(); snr = LoRa.packetSnr();
ReadLinkQuality ==
    /\ pc = "metrics"
    /\ rssi' = packetRssi
    /\ snr' = packetSnr
    /\ pc' = "decode"
    /\ UNCHANGED <<mqttState, radioVars, payload, fields, topic, mqttPayload,
                   curPkt, clockVars, histVars>>
    /\ UNCHANGED nodeVars

\* handleLoRaPacket: deserializeJson, the extraction of the four fields and
\* the machineId test; both failures return.
Decode ==
    /\ pc = "decode"
    /\ LET doc == deserializeJson(payload)
           f == Extract(doc.members)
       IN IF doc.error # "Ok"
          THEN /\ Discard("parse_error")
               /\ pc' = DiscardReturn
               /\ LocalsDead
          ELSE IF Rejected(f)
          THEN /\ Discard("missing_id")
               /\ pc' = DiscardReturn
               /\ LocalsDead
          ELSE /\ fields' = f
               /\ pc' = "build"
               /\ UNCHANGED <<payload, rssi, snr, topic, mqttPayload, curPkt, histVars>>
    /\ UNCHANGED <<mqttState, radioVars, clockVars>>
    /\ UNCHANGED nodeVars

\* handleLoRaPacket: txDoc, serializeJson(txDoc, mqttPayload) and the topic.
Build ==
    /\ pc = "build"
    /\ mqttPayload' = serializeJson(txDoc(fields, millisSeconds, rssi, snr))
    /\ topic' = snprintf(TopicSize, MQTT_TOPIC_PREFIX, fields.machineId.s)
    /\ pc' = "publish"
    /\ UNCHANGED <<mqttState, radioVars, payload, rssi, snr, fields, curPkt,
                   clockVars, histVars>>
    /\ UNCHANGED nodeVars

\* Publish with a second call when the first one fails.
PublishRetry ==
    /\ pc = "publish"
    /\ \E sent \in (IF connected THEN BOOLEAN ELSE {FALSE}) :
          /\ handled' = Handling(curPkt, "published", IF sent THEN 1 ELSE 2, topic,
                                 mqttPayload, mqttState, sent, clock.sec)
          /\ nPub' = nPub + (IF sent THEN 1 ELSE 2)
    /\ doneSeq' = curPkt.seq
    /\ pc' = "delay"
    /\ LocalsDead
    /\ lastStamp' = Timestamp(mqttPayload)
    /\ UNCHANGED <<mqttState, radioVars, clockVars, arrived, nDiscard>>
    /\ UNCHANGED nodeVars

\* Publish called again for the same reading for as long as it fails.
PublishUntilSent ==
    /\ pc = "publish"
    /\ \E sent \in (IF connected THEN BOOLEAN ELSE {FALSE}) :
          /\ handled' = Handling(curPkt, "published", 1, topic, mqttPayload,
                                 mqttState, sent, clock.sec)
          /\ IF sent
             THEN pc' = "delay" /\ doneSeq' = curPkt.seq /\ LocalsDead
             ELSE /\ pc' = "publish"
                  /\ UNCHANGED <<doneSeq, payload, rssi, snr, fields, topic,
                                 mqttPayload, curPkt>>
    /\ nPub' = nPub + 1
    /\ lastStamp' = Timestamp(mqttPayload)
    /\ UNCHANGED <<mqttState, radioVars, clockVars, arrived, nDiscard>>
    /\ UNCHANGED nodeVars

\* Publish with the session taken down by the handler when the call fails.
PublishDisconnects ==
    /\ pc = "publish"
    /\ \E sent \in (IF connected THEN BOOLEAN ELSE {FALSE}) :
          /\ handled' = Handling(curPkt, "published", 1, topic, mqttPayload,
                                 mqttState, sent, clock.sec)
          /\ mqttState' = IF sent THEN mqttState ELSE "Disconnected"
    /\ nPub' = nPub + 1
    /\ doneSeq' = curPkt.seq
    /\ pc' = "delay"
    /\ LocalsDead
    /\ lastStamp' = Timestamp(mqttPayload)
    /\ UNCHANGED <<radioVars, clockVars, arrived, nDiscard>>
    /\ UNCHANGED nodeVars

\* handleLoRaPacket: mqttClient.publish(topic, mqttPayload).  The client
\* refuses when it is not connected; a write may also fail while it is.
Publish ==
    /\ pc = "publish"
    /\ \E sent \in (IF connected THEN BOOLEAN ELSE {FALSE}) :
          handled' = Handling(curPkt, "published", 1, topic, mqttPayload,
                              mqttState, sent, clock.sec)
    /\ nPub' = nPub + 1
    /\ doneSeq' = curPkt.seq
    /\ pc' = "delay"
    /\ LocalsDead
    /\ lastStamp' = Timestamp(mqttPayload)
    /\ UNCHANGED <<mqttState, radioVars, clockVars, arrived, nDiscard>>
    /\ UNCHANGED nodeVars

\* loop(): delay(10) is over.
LoopDelay ==
    /\ pc = "delay"
    /\ pc' = "check"
    /\ handled' = NoHandling
    /\ UNCHANGED <<mqttState, radioVars, localVars, clockVars, arrived, nPub,
                   nDiscard, doneSeq, lastStamp>>
    /\ UNCHANGED nodeVars

\* ------------------------------------------------------------- the node
\* (long)x in place of round(x): the fraction is dropped.
truncated(n, u) ==
    IF n >= 0 THEN n \div u ELSE -((-n) \div u)
\* round(x): the Arduino macro, half away from zero; x is given as n / u.
round(n, u) ==
    IF n >= 0 THEN (n + u \div 2) \div u ELSE -((-n + u \div 2) \div u)
\* The number m / 1000 as a JSON number token.
Thousandths(m) ==
    IF m >= 0 THEN N(m \div 1000, m % 1000) ELSE N(-((-m) \div 1000), -((-m) % 1000))

\* readAndTransmit(): the StaticJsonDocument<128> doc built from the sample.
doc(smp) ==
    <<[key |-> "id", val |-> S(machineId)],
      [key |-> "t", val |-> Thousandths(round(smp.temperature, 1000) * 100)],
      [key |-> "v", val |-> Thousandths(round(smp.vibration, 10))],
      [key |-> "r", val |-> N(smp.rpm, 0)]>>

\* max(a, b)
max(a, b) == IF a >= b THEN a ELSE b
\* readTemperature(), readVibration(), readRPM() where the quantity at the
\* sensor is x: the temperature as it is, the vibration and the rpm not
\* below zero.
readTemperature(x) == x
readVibration(x) == max(0, x)
readRPM(x) == max(0, x)

\* What a reset of the processor leaves of the RAM of the sketch.
RamCleared ==
    /\ sample' = NoSample
    /\ measured' = NoSample
    /\ nodePayload' = <<>>
    /\ result' = -1
    /\ phases' = <<"Booting">>
    /\ txThisBoot' = 0
    /\ onAir' = <<>>

\* setup(): Serial.begin, delay(1000), bootCount++ and the banner.
NodeSetup ==
    /\ nodePc = "Booting"
    /\ bootCount' = bootCount + 1
    /\ nodePc' = "RadioInit"
    /\ phases' = Append(phases, "RadioInit")
    /\ UNCHANGED <<nodeRadio, sample, nodePayload, result, slept, txThisBoot,
                   sinceTx, txGap, lastTx, onAir>>
    /\ UNCHANGED boots
    /\ UNCHANGED machineId
    /\ UNCHANGED measured
    /\ UNCHANGED gatewayVars

\* setupLoRa(): LoRa.setPins and LoRa.begin, which resets the chip.
NodeLoRaBegin ==
    /\ nodePc = "RadioInit"
    /\ \E began \in BOOLEAN :
          IF began
          THEN nodeRadio' = "Begun" /\ nodePc' = "RadioConfig"
          ELSE nodeRadio' = "Uninit" /\ nodePc' = "RestartDelay"
    /\ UNCHANGED <<bootCount, sample, nodePayload, result, slept, phases,
                   txThisBoot, sinceTx, txGap, lastTx, onAir>>
    /\ UNCHANGED boots
    /\ UNCHANGED machineId
    /\ UNCHANGED measured
    /\ UNCHANGED gatewayVars

\* setupLoRa(): bandwidth, spreading factor, coding rate, power, sync word.
NodeLoRaConfigure ==
    /\ nodePc = "RadioConfig"
    /\ nodeRadio' = "Configured"
    /\ nodePc' = "Sampling"
    /\ phases' = Append(phases, "Sampling")
    /\ UNCHANGED <<bootCount, sample, nodePayload, result, slept, txThisBoot,
                   sinceTx, txGap, lastTx, onAir>>
    /\ UNCHANGED boots
    /\ UNCHANGED machineId
    /\ UNCHANGED measured
    /\ UNCHANGED gatewayVars

\* setupLoRa(): delay(5000), and LoRa.begin is tried again in place.
NodeRetryInPlace ==
    /\ nodePc = "RestartDelay"
    /\ nodePc' = "RadioInit"
    /\ UNCHANGED <<bootCount, nodeRadio, sample, nodePayload, result, slept,
                   phases, txThisBoot, sinceTx, txGap, lastTx, onAir>>
    /\ UNCHANGED boots
    /\ UNCHANGED machineId
    /\ UNCHANGED measured
    /\ UNCHANGED gatewayVars

\* setupLoRa(): delay(5000); ESP.restart().  A software reset loads the
\* .rtc.data section again, so bootCount starts from its initialiser.
NodeRestart ==
    /\ nodePc = "RestartDelay"
    /\ nodePc' = "Booting"
    /\ bootCount' = 0
    /\ RamCleared
    /\ UNCHANGED <<nodeRadio, slept, sinceTx, txGap, lastTx>>
    /\ boots' = 1
    /\ UNCHANGED machineId
    /\ UNCHANGED gatewayVars

\* readAndTransmit(): the sample is sent without being encoded.
ReadSensorsThenTransmit ==
    /\ nodePc = "Sampling"
    /\ \E t \in Temperatures, v \in Vibrations, r \in Rpms :
          /\ measured' = [temperature |-> t, vibration |-> v, rpm |-> r]
          /\ sample' = [temperature |-> readTemperature(t),
                        vibration |-> readVibration(v), rpm |-> readRPM(r)]
    /\ nodePc' = "Transmitting"
    /\ phases' = Append(phases, "Transmitting")
    /\ UNCHANGED <<bootCount, nodeRadio, nodePayload, result, slept, txThisBoot,
                   sinceTx, txGap, lastTx, onAir>>
    /\ UNCHANGED boots
    /\ UNCHANGED machineId
    /\ UNCHANGED gatewayVars

\* readAndTransmit(): readTemperature(), readVibration(), readRPM()
ReadSensors ==
    /\ nodePc = "Sampling"
    /\ \E t \in Temperatures, v \in Vibrations, r \in Rpms :
          /\ measured' = [temperature |-> t, vibration |-> v, rpm |-> r]
          /\ sample' = [temperature |-> readTemperature(t),
                        vibration |-> readVibration(v), rpm |-> readRPM(r)]
    /\ nodePc' = "Encoding"
    /\ phases' = Append(phases, "Encoding")
    /\ UNCHANGED <<bootCount, nodeRadio, nodePayload, result, slept, txThisBoot,
                   sinceTx, txGap, lastTx, onAir>>
    /\ UNCHANGED boots
    /\ UNCHANGED machineId
    /\ UNCHANGED gatewayVars

\* readAndTransmit(): doc is filled and serializeJson(doc, payload) runs.
EncodePayload ==
    /\ nodePc = "Encoding"
    /\ nodePayload' \in serializeJsonTo(doc(sample), PayloadSize)
    /\ nodePc' = "Transmitting"
    /\ phases' = Append(phases, "Transmitting")
    /\ UNCHANGED <<bootCount, nodeRadio, sample, result, slept, txThisBoot,
                   sinceTx, txGap, lastTx, onAir>>
    /\ UNCHANGED boots
    /\ UNCHANGED machineId
    /\ UNCHANGED measured
    /\ UNCHANGED gatewayVars

\* LoRa.print(payload): the bytes of the array up to the first zero byte,
\* which lies beyond the array when the text fills it; LoRa.write sends at
\* most MAX_PKT_LENGTH bytes.
printed(buf, size) ==
    IF TextLen(buf) < size
    THEN {buf}
    ELSE {CutAt(buf \o Garbage(n), MAX_PKT_LENGTH) : n \in OverReads}

\* readAndTransmit(): on a failed send, the packet is sent again.
TransmitReportRetry ==
    /\ nodePc = "TxDone"
    /\ nodePc' = IF result = 0 THEN "Transmitting" ELSE "EnterSleep"
    /\ sample' = NoSample
    /\ measured' = NoSample
    /\ nodePayload' = IF result = 0 THEN nodePayload ELSE <<>>
    /\ result' = -1
    /\ UNCHANGED <<bootCount, nodeRadio, slept, phases, txThisBoot, sinceTx,
                   txGap, lastTx, onAir>>
    /\ UNCHANGED boots
    /\ UNCHANGED machineId
    /\ UNCHANGED gatewayVars

\* readAndTransmit(): a failed send is waited on for ever.
TransmitHangs ==
    /\ nodePc = "Transmitting"
    /\ \E res \in {0, 1} :
          /\ result' = res
          /\ lastTx' = res
          /\ nodePc' = IF res = 1 THEN "TxDone" ELSE "TxWait"
    /\ onAir' \in printed(nodePayload, PayloadSize)
    /\ txThisBoot' = txThisBoot + 1
    /\ txGap' = sinceTx
    /\ sinceTx' = 0
    /\ UNCHANGED <<bootCount, nodeRadio, sample, nodePayload, slept, phases>>
    /\ UNCHANGED boots
    /\ UNCHANGED machineId
    /\ UNCHANGED measured
    /\ UNCHANGED gatewayVars

\* readAndTransmit(): LoRa.beginPacket(); LoRa.print(payload);
\* int result = LoRa.endPacket();
Transmit ==
    /\ nodePc = "Transmitting"
    /\ \E res \in {0, 1} :
          /\ result' = res
          /\ lastTx' = res
    /\ onAir' \in printed(nodePayload, PayloadSize)
    /\ txThisBoot' = txThisBoot + 1
    /\ txGap' = sinceTx
    /\ sinceTx' = 0
    /\ nodePc' = "TxDone"
    /\ UNCHANGED <<bootCount, nodeRadio, sample, nodePayload, slept, phases>>
    /\ UNCHANGED boots
    /\ UNCHANGED machineId
    /\ UNCHANGED measured
    /\ UNCHANGED gatewayVars

\* readAndTransmit(): the result is printed, delay(100), and the function
\* returns: its locals are gone.
TransmitReport ==
    /\ nodePc = "TxDone"
    /\ nodePc' = "EnterSleep"
    /\ sample' = NoSample
    /\ measured' = NoSample
    /\ nodePayload' = <<>>
    /\ result' = -1
    /\ UNCHANGED <<bootCount, nodeRadio, slept, phases, txThisBoot, sinceTx,
                   txGap, lastTx, onAir>>
    /\ UNCHANGED boots
    /\ UNCHANGED machineId
    /\ UNCHANGED gatewayVars

\* enterDeepSleep(): delay(100), esp_sleep_enable_timer_wakeup(
\* SLEEP_SECONDS * 1000000ULL), esp_deep_sleep_start().  The radio chip is
\* left as it is.
EnterDeepSleep ==
    /\ nodePc = "EnterSleep"
    /\ nodePc' = "Sleeping"
    /\ slept' = 0
    /\ phases' = Append(phases, "Sleeping")
    /\ UNCHANGED <<bootCount, nodeRadio, sample, nodePayload, result, txThisBoot,
                   sinceTx, txGap, lastTx, onAir>>
    /\ UNCHANGED boots
    /\ UNCHANGED machineId
    /\ UNCHANGED measured
    /\ UNCHANGED gatewayVars

\* Time passes in deep sleep, SleepSteps seconds at a time.
SleepSteps == {15}
\* The sleep as a yield: the sensors are read while the node sleeps.
SleepTickSamples ==
    /\ nodePc = "Sleeping"
    /\ slept < SLEEP_SECONDS
    /\ \E d \in SleepSteps :
          /\ slept' = slept + d
          /\ sinceTx' = IF sinceTx >= 0 THEN sinceTx + d ELSE sinceTx
    /\ \E t \in Temperatures, v \in Vibrations, r \in Rpms :
          /\ measured' = [temperature |-> t, vibration |-> v, rpm |-> r]
          /\ sample' = [temperature |-> readTemperature(t),
                        vibration |-> readVibration(v), rpm |-> readRPM(r)]
    /\ UNCHANGED <<nodePc, bootCount, nodeRadio, nodePayload, result,
                   phases, txThisBoot, txGap, lastTx, onAir>>
    /\ UNCHANGED boots
    /\ UNCHANGED machineId
    /\ UNCHANGED gatewayVars
SleepTick ==
    /\ nodePc = "Sleeping"
    /\ slept < SLEEP_SECONDS
    /\ \E d \in SleepSteps :
          /\ slept' = slept + d
          /\ sinceTx' = IF sinceTx >= 0 THEN sinceTx + d ELSE sinceTx
    /\ UNCHANGED <<nodePc, bootCount, nodeRadio, sample, nodePayload, result,
                   phases, txThisBoot, txGap, lastTx, onAir>>
    /\ UNCHANGED boots
    /\ UNCHANGED machineId
    /\ UNCHANGED measured
    /\ UNCHANGED gatewayVars

\* The timer wakes the processor at any time of the sleep.
TimerWakeEarly ==
    /\ nodePc = "Sleeping"
    /\ bootCount < MaxBoots
    /\ nodePc' = "Booting"
    /\ RamCleared
    /\ UNCHANGED <<bootCount, nodeRadio, slept, sinceTx, txGap, lastTx>>
    /\ boots' = boots + 1
    /\ UNCHANGED machineId
    /\ UNCHANGED gatewayVars

\* The wake-up timer expires and bootCount, held in ordinary RAM, starts
\* from its initialiser.
TimerWakeLosesCount ==
    /\ nodePc = "Sleeping"
    /\ slept >= SLEEP_SECONDS
    /\ boots < MaxBoots
    /\ nodePc' = "Booting"
    /\ bootCount' = 0
    /\ RamCleared
    /\ UNCHANGED <<nodeRadio, slept, sinceTx, txGap, lastTx>>
    /\ boots' = boots + 1
    /\ UNCHANGED machineId
    /\ UNCHANGED gatewayVars

\* The wake-up timer expires: the processor resets and setup() runs again;
\* only the RTC memory is kept.
TimerWake ==
    /\ nodePc = "Sleeping"
    /\ slept >= SLEEP_SECONDS
    /\ bootCount < MaxBoots
    /\ nodePc' = "Booting"
    /\ RamCleared
    /\ UNCHANGED <<bootCount, nodeRadio, slept, sinceTx, txGap, lastTx>>
    /\ boots' = boots + 1
    /\ UNCHANGED machineId
    /\ UNCHANGED gatewayVars

NodeNext ==
    \/ NodeSetup
    \/ NodeLoRaBegin
    \/ NodeLoRaConfigure
    \/ NodeRestart
    \/ ReadSensors
    \/ EncodePayload
    \/ Transmit
    \/ TransmitReport
    \/ EnterDeepSleep
    \/ SleepTick
    \/ TimerWake

NodeSpec == NodeBuildInit /\ [][NodeNext]_vars

\* The steps of the node sketch: it is the only task on the processor, and
\* the calls it makes return.
NodeStep ==
    \/ NodeSetup \/ NodeLoRaBegin \/ NodeLoRaConfigure \/ NodeRestart
    \/ ReadSensors \/ EncodePayload \/ Transmit \/ TransmitReport
    \/ EnterDeepSleep
NodeFairSpec == NodeSpec /\ WF_vars(NodeStep)

\* ------------------------------------------------------------ environment
\* A packet is on the air.  The radio takes it only in receive mode: it
\* stores payload and link quality, raises RxDone and falls back to
\* standby, so the registers keep describing this packet until the sketch
\* asks for the next one.  In standby the packet is lost, whatever it was.
AirPacket ==
    /\ Len(arrived) < MaxPackets
    /\ LET taken == loraMode = "RxSingle"
           k == Len(arrived) + 1
       IN /\ arrived' = Append(arrived, connected)
          /\ IF taken
             THEN \E b \in AirPayloads, q \in AirLinks :
                     /\ fifo' = b
                     /\ pktRssi' = q.rssi
                     /\ pktSnr' = q.snr
                     /\ fifoPkt' = AirPkt(k, b, q, mqttState)
                     /\ irqRxDone' = TRUE
                     /\ loraMode' = "Standby"
             ELSE UNCHANGED radioVars
    /\ UNCHANGED <<pc, mqttState, localVars, clockVars, nPub, nDiscard, doneSeq,
                   lastStamp,
                   handled>>
    /\ UNCHANGED nodeVars

\* Single receive mode times out without a packet.
RxTimeout ==
    /\ loraMode = "RxSingle"
    /\ loraMode' = "Standby"
    /\ UNCHANGED <<pc, mqttState, irqRxDone, fifo, pktRssi, pktSnr, fifoPkt,
                   localVars, clockVars, histVars>>
    /\ UNCHANGED nodeVars

\* The broker or the network drops the MQTT session.
ConnLost ==
    /\ mqttState = "Connected"
    /\ mqttState' = "Disconnected"
    /\ fifoPkt' = [fifoPkt EXCEPT !.steady = FALSE]
    /\ curPkt' = [curPkt EXCEPT !.steady = FALSE]
    /\ UNCHANGED <<pc, loraMode, irqRxDone, fifo, pktRssi, pktSnr, payload, rssi,
                   snr, fields, topic, mqttPayload, clockVars, histVars>>
    /\ UNCHANGED nodeVars

\* millis() advances in steps of TickSteps milliseconds, wrapping at
\* 2^32 = 4294967 * 1000 + 296.
TickSteps == {600}
WrapSec == 4294967
WrapMs == 296
Advance(c, d) ==
    LET ms == c.ms + d
        raw == [sec |-> c.sec + (ms \div 1000), ms |-> ms % 1000]
    IN IF raw.sec > WrapSec \/ (raw.sec = WrapSec /\ raw.ms >= WrapMs)
       THEN LET m2 == raw.ms + 1000 - WrapMs
            IN [sec |-> raw.sec - WrapSec - 1 + (m2 \div 1000), ms |-> m2 % 1000]
       ELSE raw

\* Time passes while the sketch waits in delay(); between two readings of
\* millis() the loop always passes through one.
Tick ==
    /\ pc \in {"delay", "backoff"}
    /\ ticks < MaxTicks
    /\ ticks' = ticks + 1
    /\ \E d \in TickSteps : clock' = Advance(clock, d)
    /\ UNCHANGED <<pc, mqttState, radioVars, localVars, histVars>>
    /\ UNCHANGED nodeVars

Next ==
    \/ SetupWiFi
    \/ SetupLoRa
    \/ LoopCheck
    \/ ReconnectTry
    \/ ConnectResult
    \/ Backoff
    \/ MqttLoop
    \/ ParsePacket
    \/ ReadPayload
    \/ ReadLinkQuality
    \/ Decode
    \/ Build
    \/ Publish
    \/ LoopDelay
    \/ AirPacket
    \/ RxTimeout
    \/ ConnLost
    \/ Tick

Spec == Init /\ [][Next]_vars

\* The gateway at the top of loop() one second before the 32-bit millis()
\* counter wraps, 49.7 days after power-on; no node has sent so far.
UptimeInit ==
    /\ GatewayAt("check", [sec |-> WrapSec, ms |-> 0])
    /\ NodeInit
    /\ machineId = MACHINE_ID
\* loop() and what surrounds the gateway; setup() is over.
UptimeNext ==
    \/ LoopCheck
    \/ ReconnectTry
    \/ ConnectResult
    \/ Backoff
    \/ MqttLoop
    \/ ParsePacket
    \/ ReadPayload
    \/ ReadLinkQuality
    \/ Decode
    \/ Build
    \/ Publish
    \/ LoopDelay
    \/ AirPacket
    \/ RxTimeout
    \/ ConnLost
    \/ Tick
UptimeSpec == UptimeInit /\ [][UptimeNext]_vars

\* The steps of the gateway's own thread of control: setup() and loop().
\* The sketch is the only task on the processor, so a step that can be taken
\* is eventually taken; the radio, the broker and the clock promise nothing.
GatewayStep ==
    \/ SetupWiFi \/ SetupLoRa \/ LoopCheck \/ ReconnectTry \/ ConnectResult
    \/ Backoff \/ MqttLoop \/ ParsePacket \/ ReadPayload \/ ReadLinkQuality
    \/ Decode \/ Build \/ Publish \/ LoopDelay
FairSpec == Spec /\ WF_vars(GatewayStep)

\* ============================================================ properties
\* The text of a JSON object: braces around key : value pairs separated by
\* commas, read off the token positions.
IsObjectText(b) ==
    /\ Len(b) >= 2
    /\ b[1] = P("{")
    /\ b[Len(b)] = P("}")
    /\ \/ Len(b) = 2
       \/ /\ Len(b) % 4 = 1
          /\ \A j \in 2..(Len(b) - 1) :
                /\ j % 4 = 2 => b[j].k = "str"
                /\ j % 4 = 3 => b[j] = P(":")
                /\ j % 4 = 0 => IsValue(b[j])
                /\ j % 4 = 1 => b[j] = P(",")
KeyAt(b, key) == {j \in 2..(Len(b) - 2) : j % 4 = 2 /\ b[j] = S(key)}
HasKey(b, key) == KeyAt(b, key) # {}
ValueOf(b, key) == b[(CHOOSE j \in KeyAt(b, key) : \A h \in KeyAt(b, key) : j <= h) + 2]
HasString(b, key) == HasKey(b, key) /\ ValueOf(b, key).k = "str"
HasNumber(b, key) == HasKey(b, key) /\ ValueOf(b, key).k = "num"

\* The packet carries no identity: "id" is absent, not a string, or empty.
IdAbsentOrEmpty(b) ==
    IsObjectText(b) /\ (~HasString(b, "id") \/ ValueOf(b, "id").s = "")
\* The packet carries an identity but lacks one of t, v, r.
IncompleteReading(b) ==
    /\ IsObjectText(b)
    /\ HasString(b, "id")
    /\ ~(HasNumber(b, "t") /\ HasNumber(b, "v") /\ HasNumber(b, "r"))
\* The packet is a compact reading {id, t, v, r} with an integer r.
CompleteReading(b) ==
    /\ IsObjectText(b)
    /\ HasString(b, "id")
    /\ HasNumber(b, "t") /\ HasNumber(b, "v") /\ HasNumber(b, "r")
    /\ ValueOf(b, "r").f = 0
\* The packet passes the checks handleLoRaPacket makes before it publishes.
PassesValidation(b) == IsObjectText(b) /\ HasString(b, "id")

InHandler == pc \in {"read", "metrics", "decode", "build", "publish"}
JustHandled == handled.pkt.seq > 0
JustDiscarded == handled.outcome \in {"parse_error", "missing_id"}
JustPublished == handled.calls > 0

\* C1: no publish call is made while the upstream connection state is not
\* Connected, also when the connection is lost between the check at the top
\* of loop() and the publish.
C1_PublishOnlyWhileConnected ==
    JustPublished => handled.link = "Connected"

\* C2: reception never stalls because the upstream is down: a packet held
\* by the radio is never left waiting while the sketch is inside the
\* reconnect loop (connect attempt or backoff wait) with the session not
\* Connected.
C2_ReceptionNotStalledByReconnect ==
    ~(irqRxDone /\ ~connected /\ pc \in {"reconnect", "connect", "backoff"})

\* C3: a reading whose packet arrived while the upstream was Disconnected
\* or Connecting is never delivered later, not even after the reconnect
\* (every publish call the broker accepts is for a packet that arrived while
\* Connected); two packets arriving while Disconnected and a third after
\* the reconnect give no more than the one publish call of the third.
C3_ArrivedWhileDownNeverPublished ==
    /\ (JustPublished /\ handled.ok) => handled.pkt.link = "Connected"
    /\ arrived = <<FALSE, FALSE, TRUE>> => nPub <= 1

\* C4: a discarded packet never blocks reception: after a discard (parse
\* error or missing identity) the sketch is back in loop() with the handler
\* state gone and the radio ready to be re-armed, and every packet that
\* passes validation is published, however many packets were discarded
\* before it.
C4_BadPacketNeverBlocks ==
    /\ JustDiscarded =>
          /\ pc = "delay"
          /\ payload = <<>> /\ fields = NoFields /\ curPkt = NoPkt
          /\ ~irqRxDone /\ loraMode = "Standby"
    /\ (JustHandled /\ PassesValidation(handled.pkt.bytes)) =>
          handled.outcome = "published"
    /\ pc = "halted" => doneSeq = 0

C4_Witness ==
    /\ handled.outcome = "published"
    /\ PassesValidation(handled.pkt.bytes)
    /\ nDiscard >= 2

\* C5: a packet whose id is absent or is the empty string fails validation
\* with MissingIdentity: it is discarded and no publish call is made for it.
C5_MissingIdentityDiscarded ==
    (JustHandled /\ IdAbsentOrEmpty(handled.pkt.bytes)) =>
        (handled.outcome = "missing_id" /\ handled.calls = 0)

C7_IncompleteDiscarded ==
    (JustHandled /\ IncompleteReading(handled.pkt.bytes)) => handled.calls = 0

\* C8: every received packet that passes validation yields exactly one
\* publish call, no packet is handled twice, and the published payload is
\* made of that one packet's data.
C8_ExactlyOnePublishPerPacket ==
    /\ (JustHandled /\ PassesValidation(handled.pkt.bytes)) => handled.calls = 1
    /\ JustHandled => (handled.calls <= 1 /\ handled.pkt.seq = doneSeq)
    /\ curPkt.seq > 0 => curPkt.seq > doneSeq
    /\ fifoPkt.seq > 0 => (fifoPkt.seq > doneSeq /\ fifoPkt.seq > curPkt.seq)
    /\ nPub + nDiscard <= doneSeq
    /\ JustPublished =>
          handled.payload =
              serializeJson(txDoc(Extract(deserializeJson(handled.pkt.bytes).members),
                                  handled.sec, handled.pkt.rssi, handled.pkt.snr))

C8_Witness ==
    /\ handled.calls = 1
    /\ handled.link = "Connected"
    /\ handled.ok
    /\ nPub >= 2

\* C9: the rssi and snr of a published reading are those the radio measured
\* for the packet whose payload it carries; the registers cannot change
\* while the packet is handled, whatever arrives meanwhile.
C9_LinkQualityOfSamePacket ==
    /\ JustPublished =>
          /\ ValueOf(handled.payload, "rssi") = N(handled.pkt.rssi, 0)
          /\ ValueOf(handled.payload, "snr") = N(handled.pkt.snr.i, handled.pkt.snr.f)
    /\ pc \in {"decode", "build", "publish"} =>
          (payload = curPkt.bytes /\ rssi = curPkt.rssi /\ snr = curPkt.snr)
    /\ InHandler => (loraMode = "Standby" /\ ~irqRxDone)

C9_Witness ==
    /\ JustPublished
    /\ handled.pkt.seq = 2
    /\ Len(arrived) = 3
    /\ handled.pkt.rssi = -110

\* The canonical text with the seven fields in order.
Canonical(id, ts, t, v, r, q, n) ==
    <<P("{"), S("machine_id"), P(":"), S(id), P(","),
      S("timestamp"), P(":"), N(ts, 0), P(","),
      S("temperature"), P(":"), t, P(","),
      S("vibration"), P(":"), v, P(","),
      S("rpm"), P(":"), r, P(","),
      S("rssi"), P(":"), N(q, 0), P(","),
      S("snr"), P(":"), N(n.i, n.f), P("}")>>

C11_TopicIsPrefixPlusIdentity ==
    (JustPublished /\ handled.ok) =>
        /\ handled.topic = MQTT_TOPIC_PREFIX \o ValueOf(handled.pkt.bytes, "id").s
        /\ handled.topic = MQTT_TOPIC_PREFIX \o ValueOf(handled.payload, "machine_id").s

\* C12: whenever the upstream session is not Connected, a connection
\* attempt is eventually made (or the session is Connected again).
C12_KeepsAttempting == (~connected) ~> (pc = "connect" \/ connected)
\* The same, for a gateway that is in its loop.
C12_KeepsAttemptingInLoop ==
    (~connected /\ pc \notin {"setupWiFi", "setupLoRa", "halted"})
        ~> (pc = "connect" \/ connected)

\* C13: a valid reading that arrived while the upstream was Connected, and
\* with the upstream Connected ever since, has been published when
\* handleLoRaPacket returns.
C13_ArrivedWhileConnectedPublished ==
    (/\ JustPublished
     /\ handled.pkt.steady
     /\ CompleteReading(handled.pkt.bytes)
     /\ ~IdAbsentOrEmpty(handled.pkt.bytes)) => handled.ok

\* C14: after a publish call that failed the upstream session is not
\* Connected.
C14_FailedPublishLeavesConnected ==
    (JustPublished /\ ~handled.ok) => mqttState # "Connected"

\* C15: no error leaves the gateway in a state from which it never takes
\* another step.
C15_GatewayNeverHalts == pc # "halted"

\* ------------------------------------------------------ node properties
PhaseOrder ==
    <<"Booting", "RadioInit", "Sampling", "Encoding", "Transmitting", "Sleeping">>
IsPrefix(p, q) == Len(p) <= Len(q) /\ SubSeq(q, 1, Len(p)) = p
Sampled(smp) ==
    /\ smp.temperature \in {readTemperature(t) : t \in Temperatures}
    /\ smp.vibration \in {readVibration(v) : v \in Vibrations}
    /\ smp.rpm \in {readRPM(r) : r \in Rpms}

\* C16: the phases of a boot are gone through in the fixed order, a boot
\* that sleeps has gone through all of them, the only step out of Sleeping
\* is the wake into Booting, and a packet handed to the radio is the
\* encoding of the reading sampled in this boot, after the radio has been
\* initialised.
C16_PhasesInOrder ==
    /\ [](IsPrefix(phases, PhaseOrder))
    /\ [](nodePc = "Sleeping" => phases = PhaseOrder)
    /\ [](nodePc = "TxDone" =>
             /\ phases = SubSeq(PhaseOrder, 1, 5)
             /\ nodeRadio = "Configured"
             /\ Sampled(sample)
             /\ nodePayload \in serializeJsonTo(doc(sample), PayloadSize)
             /\ onAir \in printed(nodePayload, PayloadSize))
    /\ [][nodePc = "Sleeping" =>
             \/ nodePc' = "Sleeping"
             \/ nodePc' = "Booting" /\ slept >= SLEEP_SECONDS]_vars
C16_Witness ==
    nodePc = "Sleeping" /\ bootCount = 2 /\ phases = PhaseOrder /\ slept = SLEEP_SECONDS

\* C17: a boot whose radio initialisation failed has not configured the
\* radio, sampled, encoded, transmitted or slept, and its only step is the
\* restart into Booting of a fresh boot.
C17_InitFailureRestarts ==
    /\ [](nodePc = "RestartDelay" =>
             /\ phases = <<"Booting", "RadioInit">>
             /\ nodeRadio = "Uninit"
             /\ sample = NoSample
             /\ nodePayload = <<>>
             /\ txThisBoot = 0)
    /\ [][nodePc = "RestartDelay" =>
             \/ nodePc' = "RestartDelay"
             \/ /\ nodePc' = "Booting"
                /\ phases' = <<"Booting">>
                /\ txThisBoot' = 0
                /\ sample' = NoSample /\ nodePayload' = <<>>]_vars
C17_Witness == nodePc = "RestartDelay" /\ lastTx = 1 /\ bootCount = 2

\* C18: a boot makes at most one transmit attempt, and every attempt but
\* the first comes after a full wake interval of sleep since the one before.
C18_OneTransmitPerCycle ==
    /\ txThisBoot <= 1
    /\ txGap = -1 \/ txGap >= SLEEP_SECONDS
C18_Witness ==
    nodePc = "EnterSleep" /\ lastTx = 0 /\ txThisBoot = 1 /\ txGap = SLEEP_SECONDS

\* C19: a boot whose radio initialisation succeeded reaches Sleeping,
\* also after a failed transmit; a boot whose radio initialisation failed
\* reaches the restart; no boot stays in an active phase for ever.
C19_EveryBootEnds ==
    /\ (nodePc = "RadioConfig") ~> (nodePc = "Sleeping")
    /\ (nodePc = "TxDone" /\ result = 0) ~> (nodePc = "Sleeping")
    /\ (nodePc = "RestartDelay") ~> (nodePc = "Booting" /\ phases = <<"Booting">>)
    /\ (nodePc # "Sleeping") ~> (nodePc \in {"Sleeping", "RestartDelay"})
C19_Witness == nodePc = "Sleeping" /\ lastTx = 0 /\ bootCount = 2

\* C20: when a boot starts after an earlier transmit attempt, the node
\* holds the result of that attempt (result is the only place where the
\* sketch keeps it).
C20_LastSendResultPersists ==
    (nodePc = "Booting" /\ lastTx # -1) => result = lastTx


\* C21: in the n-th consecutive boot since power-on the boot counter is n
\* once setup() has counted the boot (n - 1 before), it changes only by
\* that one increment, and it is the same after a deep sleep as before.
C21_BootCountCountsBoots ==
    /\ [](bootCount = IF nodePc = "Booting" THEN boots - 1 ELSE boots)
    /\ [][(nodePc = "Sleeping" /\ nodePc' = "Booting") => bootCount' = bootCount]_vars
    /\ [][bootCount' # bootCount =>
             \/ nodePc = "Booting" /\ bootCount' = bootCount + 1
             \/ nodePc = "RestartDelay"]_vars
C21_Witness == nodePc = "RadioInit" /\ bootCount = 3 /\ boots = 3 /\ lastTx = 1


\* C22: a packet handed to the radio is the whole text of the reading
\* sampled in this boot, and a reading whose text does not fit the payload
\* array is not transmitted.
C22_EncodeNeverTruncates ==
    nodePc = "TxDone" =>
        /\ onAir = serializeJson(doc(sample))
        /\ TextLen(serializeJson(doc(sample))) < PayloadSize

\* C23: every packet handed to the radio has at most 128 bytes.
C23_PayloadAtMost128 == TextLen(onAir) <= PayloadSize


\* The value of a decoded float, in units of 0.0001.
Value(x) == (x.i * 1000 + x.f) * 10
\* d is s rounded to a multiple of u, a tie going away from zero.
RoundedTo(d, s, u) ==
    /\ d % u = 0
    /\ 2 * Abs(d - s) <= u
    /\ 2 * Abs(d - s) = u => Abs(d) > Abs(s)
\* The text of the reading fits the payload array with its terminator.
IdentityFits == TextLen(serializeJson(doc(sample))) < PayloadSize

\* C24: when the text of the reading fits the payload array, what the
\* gateway parses and extracts from the packet the node handed to the radio
\* is the node's identity, the sampled rpm, the sampled temperature rounded
\* to tenths and the sampled vibration rounded to thousandths.
C24_RoundTrip ==
    (nodePc = "TxDone" /\ IdentityFits) =>
        LET rx == deserializeJson(onAir)
            f == Extract(rx.members)
        IN /\ rx.error = "Ok"
           /\ ~Rejected(f)
           /\ f.machineId.s = machineId
           /\ f.rpm = sample.rpm
           /\ RoundedTo(Value(f.temperature), sample.temperature, 1000)
           /\ RoundedTo(Value(f.vibration), sample.vibration, 10)
\* A reading with a negative temperature on a tie and an identity that
\* leaves no byte of the array unused has been handed to the radio.
C24_Witness ==
    /\ nodePc = "TxDone"
    /\ machineId = MachineId90
    /\ sample.temperature = -52500
    /\ sample.vibration = 96
    /\ Extract(deserializeJson(onAir).members).temperature = [i |-> -5, f |-> -300]


\* The radio chip draws its standby or receive current: begin() has woken
\* it and nothing has put it to sleep since.
RadioPowered == nodeRadio \in {"Begun", "Configured"}

\* C25: the node is never in deep sleep with its radio still powered.
C25_RadioDownInSleep == nodePc = "Sleeping" => ~RadioPowered


\* What the task of a boot has produced so far.
TaskData == <<sample, nodePayload, onAir, txThisBoot, result, lastTx>>

\* C26: the task of a boot goes one step at a time: nothing is encoded
\* before the sampling has ended, nothing is handed to the radio before the
\* encoding has ended, and each of the three happens in its own phase only;
\* a boot that has sampled is followed by a new boot only out of Sleeping
\* (the one other way into Booting is the restart of a boot whose radio
\* initialisation failed, which has not begun its task); and while the node
\* sleeps nothing is sampled, encoded or transmitted.
C26_OneTaskNoOverlap ==
    /\ [](nodePc = "Sampling" => sample = NoSample /\ nodePayload = <<>> /\ txThisBoot = 0)
    /\ [](nodePc = "Encoding" => nodePayload = <<>> /\ onAir = <<>> /\ txThisBoot = 0)
    /\ [](nodePc = "Transmitting" => onAir = <<>> /\ txThisBoot = 0)
    /\ [](nodePc = "Sleeping" => sample = NoSample /\ nodePayload = <<>>)
    /\ [][(sample' # sample /\ sample' # NoSample) => nodePc = "Sampling"]_vars
    /\ [][(nodePayload' # nodePayload /\ nodePayload' # <<>>) => nodePc = "Encoding"]_vars
    /\ [][txThisBoot' > txThisBoot => nodePc = "Transmitting"]_vars
    /\ [][(nodePc # "Booting" /\ nodePc' = "Booting") =>
             \/ nodePc = "Sleeping"
             \/ nodePc = "RestartDelay" /\ TaskData = <<NoSample, <<>>, <<>>, 0, -1, lastTx>>]_vars
    /\ [][nodePc = "Sleeping" =>
             \/ nodePc' = "Booting"
             \/ nodePc' = "Sleeping" /\ UNCHANGED TaskData]_vars
\* The node is half way through the sleep that ends its second cycle.
C26_Witness ==
    /\ nodePc = "Sleeping"
    /\ 0 < slept /\ slept < SLEEP_SECONDS
    /\ bootCount = 2
    /\ txThisBoot = 1
    /\ txGap >= SLEEP_SECONDS


\* What the handler makes of the bytes b received with rssi r and snr q at
\* clock second c: a function of these four and of nothing else.
enrich(b, r, q, c) ==
    LET f == Extract(deserializeJson(b).members)
    IN [payload |-> serializeJson(txDoc(f, c, r, q)),
        topic |-> snprintf(TopicSize, MQTT_TOPIC_PREFIX, f.machineId.s)]

\* C27: the payload and the topic of every publication are a function of
\* the packet's bytes, its rssi and snr and the clock second of the
\* handling, whatever was handled before; and building them changes none of
\* the received bytes, the link metrics or the extracted fields.
C27_EnrichDeterministic ==
    /\ [](JustPublished =>
             LET e == enrich(handled.pkt.bytes, handled.pkt.rssi, handled.pkt.snr,
                             handled.sec)
             IN handled.payload = e.payload /\ handled.topic = e.topic)
    /\ [][pc = "build" => UNCHANGED <<payload, rssi, snr, fields, fifo, pktRssi, pktSnr>>]_vars
\* The third packet is published after two earlier publications, at a later
\* clock second than the gateway started with.
C27_Witness ==
    /\ JustPublished
    /\ handled.pkt.seq = 3
    /\ nPub = 3
    /\ handled.sec > 0
    /\ handled.pkt.bytes = GoodBytes


\* C28: the gateway initialises its LoRa radio only after it has connected
\* to the MQTT broker: when setup() comes to setupLoRa(), the upstream
\* session is Connected.
C28_StartupOrder == pc = "setupLoRa" => mqttState = "Connected"


\* The steps of the delivery state machine.
DeliverySteps ==
    {<<"Disconnected", "Connecting">>, <<"Connecting", "Connected">>,
     <<"Connecting", "Disconnected">>, <<"Connected", "Disconnected">>}

\* C29: the upstream session is in one of its three states and every
\* change of it is a step of the delivery state machine: the state goes to
\* Connecting where mqttClient.connect is called and nowhere else, leaves
\* Connecting where the call returns, and reaches Connected from
\* Connecting only.
C29_DeliveryStateMachine ==
    /\ [](mqttState \in {"Disconnected", "Connecting", "Connected"})
    /\ [](mqttState = "Connecting" <=> pc = "connect")
    /\ [][mqttState' # mqttState => <<mqttState, mqttState'>> \in DeliverySteps]_vars
    /\ [][(mqttState' # mqttState /\ "Connecting" \in {mqttState, mqttState'}) =>
             (pc \in {"reconnect", "connect"} /\ pc' # pc)]_vars
\* A second connection attempt is under way after the session, up when
\* the first packet was sent, has been lost.
C29_Witness ==
    /\ mqttState = "Connecting"
    /\ Len(arrived) >= 1
    /\ arrived[1]
    /\ ticks >= 1


\* The positions of the sketch inside reconnectMQTT().
InReconnect == pc \in {"reconnect", "connect"}

\* C30: no step of the sketch outside reconnectMQTT(), and so no step of
\* the handling of a packet, changes the upstream session's state; every
\* change of it is a step of reconnectMQTT() or the loss of the session,
\* which is no step of the sketch.
C30_SingleWriter ==
    /\ [][(pc' # pc /\ ~InReconnect) => mqttState' = mqttState]_vars
    /\ [][(InHandler \/ handled' # handled) => (pc' = pc \/ mqttState' = mqttState)]_vars
    /\ [][mqttState' # mqttState =>
             \/ InReconnect /\ pc' # pc
             \/ pc' = pc /\ mqttState = "Connected" /\ mqttState' = "Disconnected"]_vars
\* A publish call made with the session Connected has failed and the
\* handler has returned with the session still Connected.
C30_Witness ==
    /\ pc = "delay"
    /\ JustPublished
    /\ ~handled.ok
    /\ handled.link = "Connected"
    /\ mqttState = "Connected"
    /\ handled.pkt.steady


C32_FailedPublishNotRetried ==
    /\ []((JustPublished /\ ~handled.ok) =>
             /\ handled.calls = 1
             /\ pc = "delay"
             /\ mqttPayload = <<>> /\ payload = <<>> /\ curPkt = NoPkt)
    /\ [][nPub' # nPub =>
             /\ nPub' = nPub + 1
             /\ curPkt.seq > doneSeq
             /\ doneSeq' = curPkt.seq]_vars
    /\ [][(pc = "delay" /\ pc' # pc) => (pc' = "check" /\ handled' = NoHandling)]_vars
\* The publish call for the second packet has failed with the session
\* down, after the first packet was handled.
C32_Witness ==
    /\ pc = "delay"
    /\ JustPublished
    /\ ~handled.ok
    /\ handled.link = "Disconnected"
    /\ handled.pkt.seq = 2
    /\ nPub = 2


\* C33: in every iteration of loop() the radio is polled after the
\* connection check: the sketch comes to mqttClient.loop() only by a test
\* of mqttClient.connected(), in loop() or in reconnectMQTT(), that finds
\* the session connected, to the poll only from there, and into the
\* handler only from the poll.
C33_CheckPrecedesPoll ==
    /\ [][(pc' = "mqttLoop" /\ pc # "mqttLoop") =>
             (pc \in {"check", "reconnect"} /\ connected)]_vars
    /\ [][(pc' = "poll" /\ pc # "poll") => pc = "mqttLoop"]_vars
    /\ [][(pc' = "read" /\ pc # "read") => pc = "poll"]_vars
    /\ [][(InHandler /\ pc' # pc) => (pc' \in {"delay", "halted"} \/ InHandler')]_vars
    /\ [][(pc' = "check" /\ pc # "check") => pc \in {"setupLoRa", "delay"}]_vars
\* The handler has been entered for the second packet in an iteration
\* whose check found the session connected; the session has been lost
\* since, and was down when the first packet was sent.
C33_Witness ==
    /\ pc = "read"
    /\ curPkt.seq = 2
    /\ ~connected
    /\ arrived[1] = FALSE


\* C34: the timestamp of every published payload is not below the
\* timestamp of the payload published before it.
C34_TimestampsNeverDecrease ==
    [][nPub' # nPub => Timestamp(mqttPayload) >= lastStamp]_vars


\* The text b has the member key with the value val.
Carries(b, key, val) ==
    \E j \in 1..(Len(b) - 2) : b[j] = S(key) /\ b[j + 1] = P(":") /\ b[j + 2] = val

\* C35: every packet handed to the radio carries the identity of the build,
\* which is not empty, and the temperature, vibration and rpm read in this
\* boot; a boot starts with no reading, no payload and no packet left from
\* the boot before.
C35_OwnIdentityFreshReading ==
    /\ nodePc = "TxDone" =>
          /\ machineId # ""
          /\ Sampled(sample)
          /\ \A j \in 1..Len(doc(sample)) :
                Carries(onAir, doc(sample)[j].key, doc(sample)[j].val)
    /\ nodePc = "Booting" =>
          (sample = NoSample /\ nodePayload = <<>> /\ onAir = <<>>)

====
